---- MODULE Spec2Model ----
(***************************************************************************)
(* A model of github.com/ysicing/openai, package openai: the functional    *)
(* options and their configuration record (options.go), the constructor    *)
(* New and the request dispatchers of Client (the revision of openai.go    *)
(* that goes with options.go), and NewHeaders and the                      *)
(* DefaultHeaderTransport (client.go).                                     *)
(*                                                                         *)
(* Go values are modelled as follows.  A string is a TLA+ string, except   *)
(* a raw header entry, which NewHeaders takes apart and which is therefore *)
(* a sequence of one-character strings.  A float32 is a record             *)
(* [nan, v]: v counts tenths (F(7) is 0.7), and NaN is the float32 that    *)
(* compares false with everything.  A pointer or an optional result is a   *)
(* sequence of length 0 (nil) or 1.  An error is a string, "" being nil.   *)
(***************************************************************************)
EXTENDS Integers, Sequences, FiniteSets, TLC

\* ------------------------------------------------------------------ bounds

\* The longest option list a caller passes to New.
MaxOpts == 3

\* The most candidates a backend response carries.
MaxChoices == 1

\* The longest list of header strings a caller passes to NewHeaders.
MaxHeaders == 3

\* The most times one request object is passed to RoundTrip.
MaxTrips == 3

\* The number of goroutines that call the dispatchers of one Client.
MaxProcs == 2

\* ----------------------------------------------------------------- float32

F(n) == [nan |-> FALSE, v |-> n]

NaN == [nan |-> TRUE, v |-> 0]

\* Go's val <= 0 and val > 0 on float32: both are false of NaN.
FLeqZero(x) == ~x.nan /\ x.v <= 0

FGtZero(x) == ~x.nan /\ x.v > 0

\* ------------------------------------------------------- program constants

OpenAI == "openai"

Azure == "azure"

DeepSeek == "deepseek"

ZhiPu == "zhipu"

DeepseekChat == "deepseek-chat"

ZhiPuGlmFree == "glm-4-flash"

GPT4oMini == "gpt-4o-mini"

defaultMaxTokens == 2000

defaultModel == GPT4oMini

defaultTemperature == F(10)

defaultProvider == OpenAI

defaultTopP == F(10)

errorsMissingToken == "please set OPENAI_API_KEY environment variable"

\* ------------------------------------------------------------------ config

\* The zero value of the config struct: what &config{} holds.
ZeroConfig ==
  [ baseURL |-> "", token |-> "", orgID |-> "", model |-> "",
    proxyURL |-> "", socksURL |-> "", timeout |-> 0, maxTokens |-> 0,
    temperature |-> F(0), topP |-> F(0), presencePenalty |-> F(0),
    frequencyPenalty |-> F(0), provider |-> "", skipVerify |-> FALSE,
    headers |-> <<>>, apiVersion |-> "" ]

ConfigFields == DOMAIN ZeroConfig

\* An Option is the closure a With* constructor returns: the field the closure
\* assigns and the value it captured.
optionFunc(f, val) == [field |-> f, val |-> val]

\* A variant of apply that merges a header list into the one already there.
apply_MergeHeaders(o, c) ==
  IF o.field = "headers" THEN [c EXCEPT !.headers = @ \o o.val]
  ELSE [c EXCEPT ![o.field] = o.val]

\* optionFunc.apply: run the closure on the config.
apply(o, c) == [c EXCEPT ![o.field] = o.val]

WithToken(val) == optionFunc("token", val)

WithOrgID(val) == optionFunc("orgID", val)

WithModel(val) == optionFunc("model", val)

WithProxyURL(val) == optionFunc("proxyURL", val)

WithSocksURL(val) == optionFunc("socksURL", val)

WithBaseURL(val) == optionFunc("baseURL", val)

WithTimeout(val) == optionFunc("timeout", val)

\* A variant of WithMaxTokens that takes its argument literally.
WithMaxTokens_Literal(val) == optionFunc("maxTokens", val)

WithMaxTokens(val) ==
  optionFunc("maxTokens", IF val <= 0 THEN defaultMaxTokens ELSE val)

\* A variant of WithTemperature that takes its argument literally.
WithTemperature_Literal(val) == optionFunc("temperature", val)

WithTemperature(val) ==
  optionFunc("temperature", IF FLeqZero(val) THEN defaultTemperature ELSE val)

\* The provider names the switch of WithProvider lets through.
RecognisedProviders == {OpenAI, Azure, DeepSeek, ZhiPu}

\* A variant of WithProvider without the switch.
WithProvider_Unchecked(val) == optionFunc("provider", val)

WithProvider(val) ==
  optionFunc("provider",
             IF val \in RecognisedProviders THEN val ELSE defaultProvider)

\* A variant of WithSkipVerify that sets the flag whatever its argument.
WithSkipVerify_On(val) == optionFunc("skipVerify", TRUE)

WithSkipVerify(val) == optionFunc("skipVerify", val)

WithHeaders(headers) == optionFunc("headers", headers)

WithApiVersion(apiVersion) == optionFunc("apiVersion", apiVersion)

WithTopP(val) == optionFunc("topP", val)

WithPresencePenalty(val) == optionFunc("presencePenalty", val)

WithFrequencyPenalty(val) == optionFunc("frequencyPenalty", val)

\* A caller's expression With<X>(arg): fn names the constructor and arg is
\* its argument.  Option(call) is the Option that evaluating it yields.
Call(fn, arg) == [fn |-> fn, arg |-> arg]

Option(call) ==
  CASE call.fn = "WithToken" -> WithToken(call.arg)
    [] call.fn = "WithOrgID" -> WithOrgID(call.arg)
    [] call.fn = "WithModel" -> WithModel(call.arg)
    [] call.fn = "WithProxyURL" -> WithProxyURL(call.arg)
    [] call.fn = "WithSocksURL" -> WithSocksURL(call.arg)
    [] call.fn = "WithBaseURL" -> WithBaseURL(call.arg)
    [] call.fn = "WithTimeout" -> WithTimeout(call.arg)
    [] call.fn = "WithMaxTokens" -> WithMaxTokens(call.arg)
    [] call.fn = "WithTemperature" -> WithTemperature(call.arg)
    [] call.fn = "WithProvider" -> WithProvider(call.arg)
    [] call.fn = "WithSkipVerify" -> WithSkipVerify(call.arg)
    [] call.fn = "WithHeaders" -> WithHeaders(call.arg)
    [] call.fn = "WithApiVersion" -> WithApiVersion(call.arg)
    [] call.fn = "WithTopP" -> WithTopP(call.arg)
    [] call.fn = "WithPresencePenalty" -> WithPresencePenalty(call.arg)
    [] call.fn = "WithFrequencyPenalty" -> WithFrequencyPenalty(call.arg)

\* An element of the argument list of New: the Option that the expression
\* call yielded, kept with the expression it came from.
Made(call) ==
  [fn |-> call.fn, arg |-> call.arg, field |-> Option(call).field,
   val |-> Option(call).val]

\* The loop of newConfig: apply each option, in order, to c.
RECURSIVE applyAll(_, _)
applyAll(options, c) ==
  IF options = <<>> THEN c
  ELSE applyAll(Tail(options), apply(Head(options), c))

\* newConfig: the defaults, then the options in the order given.
newConfig(options) ==
  applyAll(options,
           [ZeroConfig EXCEPT !.maxTokens = defaultMaxTokens,
                              !.temperature = defaultTemperature,
                              !.provider = defaultProvider,
                              !.topP = defaultTopP])

\* A variant of valid without the check of the token.
valid_NoTokenCheck(cfg) ==
  IF cfg.provider = DeepSeek
    THEN [err |-> "", cfg |-> [cfg EXCEPT !.model = DeepseekChat]]
  ELSE IF cfg.provider = ZhiPu
    THEN [err |-> "",
          cfg |-> IF cfg.model = "" THEN [cfg EXCEPT !.model = ZhiPuGlmFree]
                  ELSE cfg]
  ELSE IF cfg.provider \in {OpenAI, Azure} /\ cfg.model = ""
    THEN [err |-> "", cfg |-> [cfg EXCEPT !.model = defaultModel]]
  ELSE [err |-> "", cfg |-> cfg]

\* A variant of valid that rejects the providers other than OpenAI and Azure.
valid_RejectsProvider(cfg) ==
  IF cfg.token = "" THEN [err |-> errorsMissingToken, cfg |-> cfg]
  ELSE IF cfg.provider \notin {OpenAI, Azure}
    THEN [err |-> "unsupported provider", cfg |-> cfg]
  ELSE IF cfg.model = ""
    THEN [err |-> "", cfg |-> [cfg EXCEPT !.model = defaultModel]]
  ELSE [err |-> "", cfg |-> cfg]

\* A variant of valid that fills in the default model for OpenAI only.
valid_OpenAIOnly(cfg) ==
  IF cfg.token = "" THEN [err |-> errorsMissingToken, cfg |-> cfg]
  ELSE IF cfg.provider = DeepSeek
    THEN [err |-> "", cfg |-> [cfg EXCEPT !.model = DeepseekChat]]
  ELSE IF cfg.provider = ZhiPu
    THEN [err |-> "",
          cfg |-> IF cfg.model = "" THEN [cfg EXCEPT !.model = ZhiPuGlmFree]
                  ELSE cfg]
  ELSE IF cfg.provider = OpenAI /\ cfg.model = ""
    THEN [err |-> "", cfg |-> [cfg EXCEPT !.model = defaultModel]]
  ELSE [err |-> "", cfg |-> cfg]

\* config.valid: the error it returns and the config it leaves behind.
valid(cfg) ==
  IF cfg.token = "" THEN [err |-> errorsMissingToken, cfg |-> cfg]
  ELSE IF cfg.provider = DeepSeek
    THEN [err |-> "", cfg |-> [cfg EXCEPT !.model = DeepseekChat]]
  ELSE IF cfg.provider = ZhiPu
    THEN [err |-> "",
          cfg |-> IF cfg.model = "" THEN [cfg EXCEPT !.model = ZhiPuGlmFree]
                  ELSE cfg]
  ELSE IF cfg.provider \in {OpenAI, Azure} /\ cfg.model = ""
    THEN [err |-> "", cfg |-> [cfg EXCEPT !.model = defaultModel]]
  ELSE [err |-> "", cfg |-> cfg]

\* ------------------------------------------------------------- NewHeaders

\* A variant of SplitN2 that splits at the last "=" instead of the first.
SplitN2_Last(header) ==
  LET eqs == {i \in 1..Len(header) : header[i] = "="}
  IN IF eqs = {} THEN <<header>>
     ELSE LET i == CHOOSE j \in eqs : \A k \in eqs : j >= k
          IN <<SubSeq(header, 1, i - 1), SubSeq(header, i + 1, Len(header))>>

\* strings.SplitN(header, "=", 2): the text before the first "=" and the text
\* after it, or the whole entry alone when it holds no "=".
SplitN2(header) ==
  LET eqs == {i \in 1..Len(header) : header[i] = "="}
  IN IF eqs = {} THEN <<header>>
     ELSE LET i == CHOOSE j \in eqs : \A k \in eqs : j <= k
          IN <<SubSeq(header, 1, i - 1), SubSeq(header, i + 1, Len(header))>>

\* strings.TrimSpace, over the one white-space character of the alphabet.
RECURSIVE TrimLeft(_)
TrimLeft(s) == IF s # <<>> /\ Head(s) = " " THEN TrimLeft(Tail(s)) ELSE s

RECURSIVE TrimRight(_)
TrimRight(s) ==
  IF s # <<>> /\ s[Len(s)] = " " THEN TrimRight(SubSeq(s, 1, Len(s) - 1))
  ELSE s

TrimSpace(s) == TrimRight(TrimLeft(s))

\* The letters of the alphabet, as lower / upper case pairs.
Letters == {<<"a", "A">>, <<"x", "X">>}

ToUpper(ch) ==
  IF \E l \in Letters : l[1] = ch THEN (CHOOSE l \in Letters : l[1] = ch)[2]
  ELSE ch

ToLower(ch) ==
  IF \E l \in Letters : l[2] = ch THEN (CHOOSE l \in Letters : l[2] = ch)[1]
  ELSE ch

\* textproto.CanonicalMIMEHeaderKey, which http.Header.Add applies to the key:
\* a key holding a space is left as it is; otherwise the first letter and each
\* letter after a "-" become upper case and every other letter lower case.
CanonicalMIMEHeaderKey(key) ==
  IF \E i \in 1..Len(key) : key[i] = " " THEN key
  ELSE [i \in 1..Len(key) |->
          IF i = 1 \/ key[i - 1] = "-" THEN ToUpper(key[i]) ELSE ToLower(key[i])]

\* http.Header.Add: append value to the values of the canonical key.  A header
\* set is a function from keys to their non-empty lists of values.
HeaderAdd(h, key, value) ==
  LET k == CanonicalMIMEHeaderKey(key)
  IN IF k \in DOMAIN h THEN [h EXCEPT ![k] = Append(@, value)]
     ELSE [x \in DOMAIN h \cup {k} |-> IF x = k THEN <<value>> ELSE h[x]]

\* make(http.Header)
EmptyHeader == [x \in {} |-> <<>>]

RECURSIVE NewHeadersFrom(_, _)
NewHeadersFrom(headers, h) ==
  IF headers = <<>> THEN h
  ELSE LET vals == SplitN2(Head(headers))
       IN IF Len(vals) # 2 THEN NewHeadersFrom(Tail(headers), h)
          ELSE LET key == TrimSpace(vals[1])
                   value == TrimSpace(vals[2])
               IN IF key = <<>> THEN NewHeadersFrom(Tail(headers), h)
                  ELSE NewHeadersFrom(Tail(headers), HeaderAdd(h, key, value))

NewHeaders(headers) == NewHeadersFrom(headers, EmptyHeader)

\* ---------------------------------------------------- DefaultHeaderTransport

\* http.Header.Set: the values of the canonical key become value alone.
HeaderSet(h, key, value) ==
  LET k == CanonicalMIMEHeaderKey(key)
  IN [x \in DOMAIN h \cup {k} |-> IF x = k THEN <<value>> ELSE h[x]]

\* A variant of addValues that sets the header instead of adding to it.
RECURSIVE addValues_Set(_, _, _)
addValues_Set(h, key, values) ==
  IF values = <<>> THEN h
  ELSE addValues_Set(HeaderSet(h, key, Head(values)), key, Tail(values))

\* The inner loop of RoundTrip: req.Header.Add(key, value) for each value of
\* key, in order.
RECURSIVE addValues(_, _, _)
addValues(h, key, values) ==
  IF values = <<>> THEN h
  ELSE addValues(HeaderAdd(h, key, Head(values)), key, Tail(values))

\* The outer loop of RoundTrip, over the keys of t.Header still to visit.  Go
\* visits the keys of a map in no fixed order; the keys of a header set that
\* NewHeaders built are canonical and distinct, so each key adds to an entry
\* of its own and the order makes no difference.
RECURSIVE addHeaders(_, _, _)
addHeaders(h, header, keys) ==
  IF keys = {} THEN h
  ELSE LET key == CHOOSE k \in keys : TRUE
       IN addHeaders(addValues(h, key, header[key]), header, keys \ {key})

\* A variant of headerAfter in which the loop of RoundTrip adds the values to
\* t.Header instead of req.Header.
headerAfter_Adds(t, req) == addHeaders(t.Header, t.Header, DOMAIN t.Header)

\* t.Header once RoundTrip(req) has returned: the loop ranges over t.Header
\* and calls Add on req.Header only, a map of the request.
headerAfter(t, req) == t.Header

\* &DefaultHeaderTransport{Origin: origin, Header: header}
DefaultHeaderTransport(origin, header) == [Origin |-> origin, Header |-> header]

\* DefaultHeaderTransport.RoundTrip(req): the requests t.Origin.RoundTrip is
\* called with, in order.  req.Header is not nil: http.Client makes the map
\* before it calls its transport.
RoundTrip(t, req) ==
  << [req EXCEPT !.Header = addHeaders(req.Header, t.Header, DOMAIN t.Header)] >>

\* --------------------------------------------------------------------- New

\* The URLs url.Parse rejects, among those a caller passes here.
MalformedURLs == {"%zz"}

\* url.Parse with its error dropped (proxyURL, _ := url.Parse(...)): nil for
\* a malformed URL.
urlParse(s) == IF s \in MalformedURLs THEN <<>> ELSE <<s>>

\* http.ProxyURL(fixedURL): the proxy function that returns fixedURL always,
\* a nil fixedURL (no proxy) included.
ProxyURL(fixedURL) == [fixedURL |-> fixedURL]

\* if cfg.proxyURL != "": New installs the HTTP proxy function.
proxyBranch(cfg) == cfg.proxyURL # ""

\* A variant of socksBranch that does not depend on the proxy URL.
socksBranch_Always(cfg) == cfg.socksURL # ""

\* else if cfg.socksURL != "": New builds the SOCKS5 dialer.
socksBranch(cfg) == ~proxyBranch(cfg) /\ cfg.socksURL # ""

\* A variant of socksFails that leaves the error of proxy.SOCKS5 unchecked.
socksFails_Unchecked(cfg, socksErr) == FALSE

\* if err != nil after proxy.SOCKS5: New returns the proxy error.
socksFails(cfg, socksErr) == socksBranch(cfg) /\ socksErr # ""

\* A variant of azureModelMapper that keeps the mapper of the SDK.
azureModelMapper_SDK(cfg) == [closure |-> FALSE, model |-> ""]

\* The closure New sets as AzureModelMapperFunc: it returns cfg.model
\* whatever its argument.
azureModelMapper(cfg) == [closure |-> TRUE, model |-> cfg.model]

\* openai.DefaultConfig(token) of the SDK.
DefaultConfig(token) ==
  [ authToken |-> token, BaseURL |-> "https://api.openai.com/v1",
    OrgID |-> "", APIType |-> "OPEN_AI", APIVersion |-> "",
    AzureModelMapperFunc |-> [closure |-> FALSE, model |-> ""],
    HTTPClient |-> <<>> ]

\* openai.DefaultAzureConfig(apiKey, baseURL) of the SDK.
DefaultAzureConfig(apiKey, baseURL) ==
  [ authToken |-> apiKey, BaseURL |-> baseURL,
    OrgID |-> "", APIType |-> "AZURE", APIVersion |-> "2023-05-15",
    AzureModelMapperFunc |-> [closure |-> FALSE, model |-> ""],
    HTTPClient |-> <<>> ]

\* The switch on cfg.provider that ends New: the SDK client configuration
\* handed to openai.NewClientWithConfig.  c is the configuration built from
\* DefaultConfig, httpClient the HTTP client built before.
providerConfig(cfg, c, httpClient) ==
  IF cfg.provider = Azure
    THEN LET a == DefaultAzureConfig(cfg.token, cfg.baseURL)
         IN [a EXCEPT !.AzureModelMapperFunc = azureModelMapper(cfg),
                      !.APIVersion =
                         IF cfg.apiVersion # "" THEN cfg.apiVersion ELSE @,
                      !.HTTPClient = <<httpClient>>]
  ELSE IF cfg.provider = DeepSeek
    THEN [c EXCEPT !.HTTPClient = <<httpClient>>,
                   !.BaseURL = IF cfg.baseURL = ""
                               THEN "https://api.deepseek.com" ELSE @]
  ELSE IF cfg.provider = ZhiPu
    THEN [c EXCEPT !.HTTPClient = <<httpClient>>,
                   !.BaseURL = IF cfg.baseURL = ""
                               THEN "https://open.bigmodel.cn/api/paas/v4/"
                               ELSE @]
  ELSE [c EXCEPT !.HTTPClient = <<httpClient>>,
                 !.APIVersion =
                    IF cfg.apiVersion # "" THEN cfg.apiVersion ELSE @]

\* The engine New builds from the validated config: the fields its struct
\* literal sets, the others at their zero value.
newEngine(cfg) ==
  [ client |-> <<>>, model |-> cfg.model, maxTokens |-> cfg.maxTokens,
    temperature |-> cfg.temperature, topP |-> F(0),
    presencePenalty |-> F(0), frequencyPenalty |-> F(0) ]

\* New from "Create a new client instance" on: cfg0 is the config newConfig
\* built, v what valid() returned for it, socksErr the error proxy.SOCKS5
\* returns should New call it.  The result: the error, the client (nil or
\* one), cfg0, the config as valid() left it (cfg), and the construction
\* steps taken, in order.
assemble(cfg0, v, socksErr) ==
  LET cfg == v.cfg
      base == DefaultConfig(cfg.token)
      c == [base EXCEPT !.OrgID = IF cfg.orgID # "" THEN cfg.orgID ELSE @,
                        !.BaseURL = IF cfg.baseURL # "" THEN cfg.baseURL ELSE @]
      useProxy == proxyBranch(cfg)
      useSocks == socksBranch(cfg)
      tr == [ InsecureSkipVerify |-> cfg.skipVerify,
              Proxy |-> IF useProxy THEN <<ProxyURL(urlParse(cfg.proxyURL))>>
                        ELSE <<>>,
              DialContext |-> IF useSocks THEN <<cfg.socksURL>> ELSE <<>> ]
      httpClient ==
        [ Timeout |-> cfg.timeout,
          Transport |-> [Origin |-> tr, Header |-> NewHeaders(cfg.headers)] ]
      early == <<"newConfig", "valid">>
      built == early \o <<"DefaultConfig", "http.Transport", "http.Client">>
  IN IF v.err # ""
       THEN [err |-> v.err, client |-> <<>>, cfg0 |-> cfg0, cfg |-> cfg,
             steps |-> early]
     ELSE IF socksFails(cfg, socksErr)
       THEN [err |-> "can't connect to the proxy: " \o socksErr,
             client |-> <<>>, cfg0 |-> cfg0, cfg |-> cfg,
             steps |-> built \o <<"proxy.SOCKS5: error">>]
     ELSE [err |-> "",
           client |-> <<[newEngine(cfg) EXCEPT
                           !.client = <<providerConfig(cfg, c, httpClient)>>]>>,
           cfg0 |-> cfg0, cfg |-> cfg,
           steps |-> built
                     \o (IF useProxy THEN <<"http.ProxyURL">>
                         ELSE IF useSocks THEN <<"proxy.SOCKS5">> ELSE <<>>)
                     \o <<"DefaultHeaderTransport", "NewClientWithConfig">>]

\* cfg.valid() as New calls it, then the rest of New.
validate(cfg0, socksErr) == assemble(cfg0, valid(cfg0), socksErr)

\* New(opts...).
New(options, socksErr) == validate(newConfig(options), socksErr)

\* The model names a request may carry.
ModelNames == {"", "gpt-4", "gpt-3.5-turbo", "llava"}

\* The AzureModelMapperFunc that DefaultAzureConfig sets: the model name
\* without its "." and ":" characters.
sdkAzureModelMapper(model) ==
  IF model = "gpt-3.5-turbo" THEN "gpt-35-turbo" ELSE model

\* c.AzureModelMapperFunc(model), for the SDK client configuration c.
mapModel(c, model) ==
  IF c.AzureModelMapperFunc.closure THEN c.AzureModelMapperFunc.model
  ELSE sdkAzureModelMapper(model)

\* The http.Transport that New built for the Client c, inside its
\* DefaultHeaderTransport.
transportOf(c) == c.client[1].HTTPClient[1].Transport.Origin

\* Where the http.Transport tr sends a request: to the proxy its Proxy
\* function returns, if it has one and that returns a URL; else through its
\* DialContext, if it has one; else straight to the host of the request.
Route(tr) ==
  IF tr.Proxy # <<>> /\ tr.Proxy[1].fixedURL # <<>>
    THEN [via |-> "http proxy", addr |-> tr.Proxy[1].fixedURL[1]]
  ELSE IF tr.DialContext # <<>>
    THEN [via |-> "socks5", addr |-> tr.DialContext[1]]
  ELSE [via |-> "direct", addr |-> ""]

\* ------------------------------------------------------------- dispatchers

ChatMessageRoleSystem == "system"

ChatMessageRoleUser == "user"

ChatMessagePartTypeText == "text"

ChatMessagePartTypeImageURL == "image_url"

\* openai.ChatCompletionMessage with plain text content.
TextMessage(role, content) ==
  [Role |-> role, Content |-> content, MultiContent |-> <<>>]

\* The model identifiers the switch of ImageCompletion lists.
ImageModels ==
  { "gpt-4", "gpt-4o", "gpt-4o-2024-05-13", "gpt-4o-2024-08-06", "gpt-4o-mini",
    "gpt-4o-mini-2024-07-18", "gpt-4-turbo-preview", "gpt-4-vision-preview",
    "gpt-4-1106-preview", "gpt-4-0125-preview", "gpt-4-turbo",
    "gpt-4-turbo-2024-04-09", "gpt-4-0314", "gpt-4-0613", "gpt-4-32k",
    "gpt-4-32k-0314", "gpt-4-32k-0613" }

\* The openai.ChatCompletionRequest literal every dispatcher fills from the
\* fields of the Client c.
ChatCompletionRequest(c, messages) ==
  [ Model |-> c.model, MaxTokens |-> c.maxTokens,
    Temperature |-> c.temperature, TopP |-> c.topP,
    FrequencyPenalty |-> c.frequencyPenalty,
    PresencePenalty |-> c.presencePenalty, Messages |-> messages ]

\* What a dispatcher call leaves behind: the request it built (none or one),
\* the number of calls it made to the SDK client, the SDK's response and
\* error as returned by the Create* methods, the *Response of the wrappers,
\* the error returned, and whether the call panicked instead of returning.
Outcome(req, n, r, resp, e, p) ==
  [req |-> req, sdkCalls |-> n, r |-> r, resp |-> resp, err |-> e,
   panicked |-> p]

\* A variant of sdkCreateChatCompletion that calls the SDK a second time
\* when the first call fails.
sdkCreateChatCompletion_Retry(req, b) ==
  [req |-> <<req>>, sdkCalls |-> IF b.err # "" THEN 2 ELSE 1,
   r |-> <<[Choices |-> b.Choices, Usage |-> b.Usage]>>, resp |-> <<>>,
   err |-> b.err, panicked |-> FALSE]

\* c.client.CreateChatCompletion(ctx, req): one call, answered by the backend
\* with b = [err, Choices, Usage].
sdkCreateChatCompletion(req, b) ==
  Outcome(<<req>>, 1, <<[Choices |-> b.Choices, Usage |-> b.Usage]>>, <<>>,
          b.err, FALSE)

\* A variant of CreateChatCompletion without the default system prompt.
CreateChatCompletion_NoDefault(c, prompt, content, b) ==
  sdkCreateChatCompletion(
    ChatCompletionRequest(c, << TextMessage(ChatMessageRoleSystem, prompt),
                                TextMessage(ChatMessageRoleUser, content) >>),
    b)

CreateChatCompletion(c, prompt, content, b) ==
  LET p == IF prompt = "" THEN "You are a helpful assistant." ELSE prompt
  IN sdkCreateChatCompletion(
       ChatCompletionRequest(c, << TextMessage(ChatMessageRoleSystem, p),
                                   TextMessage(ChatMessageRoleUser, content) >>),
       b)

\* A variant of CreateChatCompletionWithMessage that puts the default system
\* message before the messages of the caller.
CreateChatCompletionWithMessage_Prepends(c, messages, b) ==
  sdkCreateChatCompletion(
    ChatCompletionRequest(
      c, <<TextMessage(ChatMessageRoleSystem, "You are a helpful assistant.")>>
           \o messages),
    b)

CreateChatCompletionWithMessage(c, messages, b) ==
  sdkCreateChatCompletion(ChatCompletionRequest(c, messages), b)

\* A variant of CreateImageChatCompletion that puts the system message
\* before the user message.
CreateImageChatCompletion_SystemFirst(c, image, prompt, content, b) ==
  LET first ==
        [ Role |-> ChatMessageRoleUser, Content |-> "",
          MultiContent |->
            << [Type |-> ChatMessagePartTypeText, Text |-> content,
                ImageURL |-> <<>>],
               [Type |-> ChatMessagePartTypeImageURL, Text |-> "",
                ImageURL |-> <<[URL |-> image]>>] >> ]
      messages ==
        IF prompt # ""
        THEN <<TextMessage(ChatMessageRoleSystem, prompt), first>>
        ELSE <<first>>
  IN sdkCreateChatCompletion(ChatCompletionRequest(c, messages), b)

CreateImageChatCompletion(c, image, prompt, content, b) ==
  LET first ==
        [ Role |-> ChatMessageRoleUser, Content |-> "",
          MultiContent |->
            << [Type |-> ChatMessagePartTypeText, Text |-> content,
                ImageURL |-> <<>>],
               [Type |-> ChatMessagePartTypeImageURL, Text |-> "",
                ImageURL |-> <<[URL |-> image]>>] >> ]
      messages ==
        IF prompt # ""
        THEN <<first, TextMessage(ChatMessageRoleSystem, prompt)>>
        ELSE <<first>>
  IN sdkCreateChatCompletion(ChatCompletionRequest(c, messages), b)

\* The tail shared by Completion and ImageCompletion: return the error of
\* the Create* call, or else read r.Choices[0], which panics (index out of
\* range) on an empty list.
firstChoice(o) ==
  IF o.err # "" THEN [o EXCEPT !.r = <<>>, !.resp = <<>>]
  ELSE IF o.r[1].Choices = <<>>
    THEN [o EXCEPT !.r = <<>>, !.resp = <<>>, !.panicked = TRUE]
  ELSE [o EXCEPT !.r = <<>>,
                 !.resp = <<[Content |-> o.r[1].Choices[1].Message.Content,
                             Usage |-> o.r[1].Usage]>>]

Completion(c, prompt, content, b) ==
  firstChoice(CreateChatCompletion(c, prompt, content, b))

\* A variant of ImageCompletion without the switch on the model.
ImageCompletion_AnyModel(c, image, prompt, content, b) ==
  firstChoice(CreateImageChatCompletion(c, image, prompt, content, b))

ImageCompletion(c, image, prompt, content, b) ==
  IF c.model \in ImageModels
  THEN firstChoice(CreateImageChatCompletion(c, image, prompt, content, b))
  ELSE Outcome(<<>>, 0, <<>>, <<>>,
               "model " \o c.model \o " does not support image completions",
               FALSE)

\* The dispatcher call o (its name and arguments) on the Client c, answered
\* by the backend with b.
Dispatch(c, o, b) ==
  CASE o.name = "CreateChatCompletion" ->
         CreateChatCompletion(c, o.prompt, o.content, b)
    [] o.name = "CreateChatCompletionWithMessage" ->
         CreateChatCompletionWithMessage(c, o.messages, b)
    [] o.name = "CreateImageChatCompletion" ->
         CreateImageChatCompletion(c, o.image, o.prompt, o.content, b)
    [] o.name = "Completion" -> Completion(c, o.prompt, o.content, b)
    [] o.name = "ImageCompletion" ->
         ImageCompletion(c, o.image, o.prompt, o.content, b)

\* A variant of clientAfter in which the image dispatchers switch the Client
\* to an image model.
clientAfter_SwitchesModel(c, o) ==
  IF o.name \in {"CreateImageChatCompletion", "ImageCompletion"}
  THEN [c EXCEPT !.model = "gpt-4o"] ELSE c

\* The Client c once the dispatcher call o has returned: the dispatchers read
\* the fields of c into the request and assign to none.
clientAfter(c, o) == c

\* The HTTP request the SDK client of c builds for a chat completion, with
\* the header the SDK sets itself.
sdkRequest(c) ==
  [ Method |-> "POST", URL |-> c.client[1].BaseURL \o "/chat/completions",
    Header |-> [k \in {<<"A">>} |-> << <<"1">> >>] ]

\* The DefaultHeaderTransport that New gave the HTTP client of c.
headerTransportOf(c) == c.client[1].HTTPClient[1].Transport

\* ------------------------------------------------------------------ inputs

\* The option expressions a caller chooses from.
OptionCalls ==
  {Call("WithToken", v) : v \in {"", "t"}}
  \cup {Call("WithModel", v) : v \in {"", "llava"}}
  \cup {Call("WithProvider", v) :
          v \in {"azure", "deepseek", "zhipu", "ollama"}}
  \cup {Call("WithProxyURL", v) : v \in {"http://proxy:8080", "%zz"}}
  \cup {Call("WithSocksURL", v) : v \in {"127.0.0.1:1080"}}
  \cup {Call("WithBaseURL", v) : v \in {"https://x"}}
  \cup {Call("WithOrgID", v) : v \in {"org"}}
  \cup {Call("WithApiVersion", v) : v \in {"v1"}}
  \cup {Call("WithTimeout", v) : v \in {30}}
  \cup {Call("WithMaxTokens", v) : v \in {-1, 0, 100}}
  \cup {Call("WithTemperature", v) : v \in {F(-50), F(0), F(7), NaN}}
  \cup {Call("WithTopP", v) : v \in {F(9)}}
  \cup {Call("WithPresencePenalty", v) : v \in {F(5)}}
  \cup {Call("WithFrequencyPenalty", v) : v \in {F(3)}}
  \cup {Call("WithSkipVerify", v) : v \in BOOLEAN}
  \cup {Call("WithHeaders", v) :
          v \in { << <<"X", "=", "1">> >>,
                  << <<"a", "=", "1", "=", "2">>, <<"=", "x">>, <<"a", "x">>,
                     <<" ", "A", " ", "=", " ", "2">> >> }}

\* What proxy.SOCKS5 may return as its error.
SocksErrors == {"", "socks: bad address"}

Prompts == {"", "You are a poet."}

Contents == {"hello"}

Images == {"https://example.com/image.jpg"}

MessageLists ==
  { <<TextMessage(ChatMessageRoleUser, "hi")>>,
    << TextMessage(ChatMessageRoleUser, "hi"),
       TextMessage("assistant", "hello"),
       TextMessage(ChatMessageRoleUser, "again") >> }

ZeroUsage == [PromptTokens |-> 0, CompletionTokens |-> 0, TotalTokens |-> 0]

\* What the backend may answer: an error, or 0..MaxChoices candidates.
BackendAnswers ==
  { [err |-> "backend error", Choices |-> <<>>, Usage |-> ZeroUsage] }
  \cup { [ err |-> "",
           Choices |-> [i \in 1..n |->
                          [Index |-> i - 1,
                           Message |-> TextMessage("assistant", "answer")]],
           Usage |-> [PromptTokens |-> 5, CompletionTokens |-> 7,
                      TotalTokens |-> 12] ] : n \in 0..MaxChoices }

\* The header strings a caller chooses from: "a=1", "A=2", "x=1=2", "=x",
\* "ax", " a = 2 ", "x=", " =1", "x-a=1".
HeaderEntries ==
  { <<"a", "=", "1">>, <<"A", "=", "2">>, <<"x", "=", "1", "=", "2">>,
    <<"=", "x">>, <<"a", "x">>, <<" ", "a", " ", "=", " ", "2", " ">>,
    <<"x", "=">>, <<" ", "=", "1">>, <<"x", "-", "a", "=", "1">> }

\* The header sets of the requests the HTTP client passes to its transport:
\* none, one value under "A", two values under "X-A" and one under "X".
RequestHeaders ==
  { EmptyHeader,
    [k \in {<<"A">>} |-> << <<"1">> >>],
    [k \in {<<"X", "-", "A">>, <<"X">>} |->
       IF k = <<"X">> THEN << <<"x">> >> ELSE << <<"2">>, <<"1">> >>] }

\* http.NewRequest as the SDK calls it, with the headers the SDK set.
Requests ==
  { [Method |-> "POST", URL |-> "/chat/completions", Header |-> hd] :
      hd \in RequestHeaders }

\* &http.Transport{}
ZeroTransport ==
  [InsecureSkipVerify |-> FALSE, Proxy |-> <<>>, DialContext |-> <<>>]

\* ------------------------------------------------------------------- state

VARIABLES
  phase,   \* "options": the caller assembles the option list; "constructed":
           \* New returned a Client; "failed": New returned an error;
           \* "panicked": a dispatcher call panicked
  opts,    \* the options made so far, the argument list of New
  cfg0,    \* the config newConfig built inside New
  cfg,     \* the same config after valid(), which the closures of New keep
  client,  \* the *Client New returned: <<>> or <<Client>>
  err,     \* the error New returned
  steps,   \* the construction steps New took
  op,      \* the last dispatcher call: its name and arguments
  out,     \* and its Outcome
  raw,     \* the header strings made so far, the argument of NewHeaders
  hdr,     \* the header set NewHeaders returned: <<>> or <<set>>
  passed,  \* the request last passed to RoundTrip, as it was when first
           \* passed: <<>> or <<request>>
  sent,    \* the requests the inner transport received from the last call
  trips,   \* how many times that request object was passed to RoundTrip
  procs    \* the goroutines calling the dispatchers of the Client: for each
           \* its position, its call, and what it built, sent and returned

vars ==
  <<phase, opts, cfg0, cfg, client, err, steps, op, out, raw, hdr, passed, sent,
    trips, procs>>

NoOp == [name |-> "", image |-> "", prompt |-> "", content |-> "",
         messages |-> <<>>, b |-> <<>>]

NoOutcome == Outcome(<<>>, 0, <<>>, <<>>, "", FALSE)

\* A goroutine that has not called a dispatcher yet.
IdleProc ==
  [pc |-> "idle", op |-> NoOp, req |-> <<>>, wire |-> <<>>, out |-> NoOutcome]

Init ==
  /\ phase = "options"
  /\ opts = <<>>
  /\ cfg0 = ZeroConfig
  /\ cfg = ZeroConfig
  /\ client = <<>>
  /\ err = ""
  /\ steps = <<>>
  /\ op = NoOp
  /\ out = NoOutcome
  /\ raw = <<>>
  /\ hdr = <<>>
  /\ passed = <<>>
  /\ sent = <<>>
  /\ trips = 0
  /\ procs = [p \in 1..MaxProcs |-> IdleProc]

\* The caller evaluates one more option expression and adds the Option it
\* yields to the argument list.
AddOption ==
  /\ phase = "options"
  /\ Len(opts) < MaxOpts
  /\ \E call \in OptionCalls : opts' = Append(opts, Made(call))
  /\ UNCHANGED <<phase, cfg0, cfg, client, err, steps, op, out>>
  /\ UNCHANGED <<raw, hdr, passed, sent, trips, procs>>

\* New returned r: the caller holds its results.
Returned(r) ==
  /\ phase' = IF r.err = "" THEN "constructed" ELSE "failed"
  /\ cfg0' = r.cfg0
  /\ cfg' = r.cfg
  /\ client' = r.client
  /\ err' = r.err
  /\ steps' = r.steps

\* The caller calls New(opts...).
CallNew ==
  /\ phase = "options"
  /\ \E socksErr \in SocksErrors :
       Returned(New(opts, socksErr))
  /\ opts' = <<>>
  /\ UNCHANGED <<op, out, raw, hdr, passed, sent, trips, procs>>

\* A dispatcher call returned o: record it; a panic ends the program.
Dispatched(o) ==
  /\ out' = o
  /\ phase' = IF o.panicked THEN "panicked" ELSE phase
  /\ UNCHANGED <<opts, cfg0, cfg, client, err, steps>>
  /\ UNCHANGED <<raw, hdr, passed, sent, trips, procs>>

CallCreateChatCompletion ==
  /\ phase = "constructed"
  /\ \E prompt \in Prompts, content \in Contents, b \in BackendAnswers :
       /\ op' = [NoOp EXCEPT !.name = "CreateChatCompletion",
                             !.prompt = prompt, !.content = content,
                             !.b = <<b>>]
       /\ Dispatched(CreateChatCompletion(client[1], prompt, content, b))

CallCreateChatCompletionWithMessage ==
  /\ phase = "constructed"
  /\ \E messages \in MessageLists, b \in BackendAnswers :
       /\ op' = [NoOp EXCEPT !.name = "CreateChatCompletionWithMessage",
                             !.messages = messages, !.b = <<b>>]
       /\ Dispatched(CreateChatCompletionWithMessage(client[1], messages, b))

CallCreateImageChatCompletion ==
  /\ phase = "constructed"
  /\ \E image \in Images, prompt \in Prompts, content \in Contents,
        b \in BackendAnswers :
       /\ op' = [NoOp EXCEPT !.name = "CreateImageChatCompletion",
                             !.image = image, !.prompt = prompt,
                             !.content = content, !.b = <<b>>]
       /\ Dispatched(CreateImageChatCompletion(client[1], image, prompt,
                                               content, b))

CallCompletion ==
  /\ phase = "constructed"
  /\ \E prompt \in Prompts, content \in Contents, b \in BackendAnswers :
       /\ op' = [NoOp EXCEPT !.name = "Completion", !.prompt = prompt,
                             !.content = content, !.b = <<b>>]
       /\ Dispatched(Completion(client[1], prompt, content, b))

CallImageCompletion ==
  /\ phase = "constructed"
  /\ \E image \in Images, prompt \in Prompts, content \in Contents,
        b \in BackendAnswers :
       /\ op' = [NoOp EXCEPT !.name = "ImageCompletion", !.image = image,
                             !.prompt = prompt, !.content = content,
                             !.b = <<b>>]
       /\ Dispatched(ImageCompletion(client[1], image, prompt, content, b))

Next ==
  \/ AddOption
  \/ CallNew
  \/ CallCreateChatCompletion
  \/ CallCreateChatCompletionWithMessage
  \/ CallCreateImageChatCompletion
  \/ CallCompletion
  \/ CallImageCompletion

Spec == Init /\ [][Next]_vars

\* The caller only assembles option lists: the specification under which the
\* properties of the options and of newConfig are checked.
NextOptions == AddOption

SpecOptions == Init /\ [][NextOptions]_vars

\* The caller adds one more header string to the list.
AddHeader ==
  /\ hdr = <<>>
  /\ Len(raw) < MaxHeaders
  /\ \E e \in HeaderEntries : raw' = Append(raw, e)
  /\ UNCHANGED <<phase, opts, cfg0, cfg, client, err, steps, op, out>>
  /\ UNCHANGED <<hdr, passed, sent, trips, procs>>

\* NewHeaders(raw) is called, as New calls it for its transport.
CallNewHeaders ==
  /\ hdr = <<>>
  /\ hdr' = <<NewHeaders(raw)>>
  /\ UNCHANGED <<phase, opts, cfg0, cfg, client, err, steps, op, out>>
  /\ UNCHANGED <<raw, passed, sent, trips, procs>>

\* The HTTP client passes a request to the DefaultHeaderTransport that holds
\* the header set.
CallRoundTrip ==
  /\ hdr # <<>>
  /\ \E r \in Requests :
       /\ passed' = <<r>>
       /\ sent' = RoundTrip(DefaultHeaderTransport(ZeroTransport, hdr[1]), r)
       /\ hdr' = <<headerAfter(DefaultHeaderTransport(ZeroTransport, hdr[1]), r)>>
  /\ trips' = 1
  /\ UNCHANGED <<phase, opts, cfg0, cfg, client, err, steps, op, out>>
  /\ UNCHANGED <<raw, procs>>

NextHeaders ==
  \/ AddHeader
  \/ CallNewHeaders
  \/ CallRoundTrip

\* The specification under which the properties of NewHeaders and of
\* DefaultHeaderTransport are checked.
SpecHeaders == Init /\ [][NextHeaders]_vars

\* The request object that RoundTrip has returned from is passed to it
\* again, with the headers the earlier calls added.
CallRoundTripAgain ==
  /\ passed # <<>>
  /\ trips < MaxTrips
  /\ sent' = RoundTrip(DefaultHeaderTransport(ZeroTransport, hdr[1]), sent[1])
  /\ hdr' = <<headerAfter(DefaultHeaderTransport(ZeroTransport, hdr[1]),
                           sent[1])>>
  /\ trips' = trips + 1
  /\ UNCHANGED <<phase, opts, cfg0, cfg, client, err, steps, op, out>>
  /\ UNCHANGED <<raw, passed, procs>>

NextTrips ==
  \/ AddHeader
  \/ CallNewHeaders
  \/ CallRoundTrip
  \/ CallRoundTripAgain

\* The specification under which repeated round trips are checked.
SpecTrips == Init /\ [][NextTrips]_vars

\* The option lists of the Clients that goroutines share.
ClientOptionLists ==
  { <<Made(Call("WithToken", "t"))>>,
    << Made(Call("WithToken", "t")), Made(Call("WithModel", "llava")),
       Made(Call("WithHeaders",
                 << <<"a", "=", "1", "=", "2">>, <<"=", "x">>, <<"a", "x">>,
                    <<" ", "A", " ", "=", " ", "2">> >>)) >>,
    << Made(Call("WithToken", "t")), Made(Call("WithProvider", "azure")),
       Made(Call("WithHeaders", << <<"X", "=", "1">> >>)) >> }

\* The dispatcher calls a goroutine chooses from.
DispatcherCalls ==
  { [NoOp EXCEPT !.name = "CreateChatCompletion", !.content = "hello"],
    [NoOp EXCEPT !.name = "Completion", !.prompt = "You are a poet.",
                 !.content = "hello"],
    [NoOp EXCEPT !.name = "CreateImageChatCompletion",
                 !.image = "https://example.com/image.jpg",
                 !.prompt = "You are a poet.", !.content = "hello"],
    [NoOp EXCEPT !.name = "ImageCompletion",
                 !.image = "https://example.com/image.jpg",
                 !.content = "hello"] }
  \cup { [NoOp EXCEPT !.name = "CreateChatCompletionWithMessage",
                      !.messages = m] : m \in MessageLists }

\* The backend has not answered yet.
PendingAnswer == [err |-> "pending", Choices |-> <<>>, Usage |-> ZeroUsage]

\* New has returned r, a Client, and the goroutines are about to use it.
Started(r) ==
  /\ phase = "constructed"
  /\ opts = <<>>
  /\ cfg0 = r.cfg0
  /\ cfg = r.cfg
  /\ client = r.client
  /\ err = r.err
  /\ steps = r.steps
  /\ op = NoOp
  /\ out = NoOutcome
  /\ raw = <<>>
  /\ hdr = <<>>
  /\ passed = <<>>
  /\ sent = <<>>
  /\ trips = 0
  /\ procs = [p \in 1..MaxProcs |-> IdleProc]

InitCalls == \E o \in ClientOptionLists : Started(New(o, ""))

\* The goroutine p ends its call with the outcome o.
Ends(p, o) ==
  /\ procs' = [procs EXCEPT ![p].pc = "done", ![p].out = o]
  /\ client' = <<clientAfter(client[1], procs'[p].op)>>
  /\ phase' = IF o.panicked THEN "panicked" ELSE phase

\* The goroutine p calls a dispatcher, which builds its request from the
\* fields of the Client; a call that makes no request returns at once.
Build(p) ==
  /\ phase = "constructed"
  /\ procs[p].pc = "idle"
  /\ \E o \in DispatcherCalls :
       IF Dispatch(client[1], o, PendingAnswer).req = <<>>
       THEN /\ procs' = [procs EXCEPT
                           ![p] = [IdleProc EXCEPT
                                     !.pc = "done", !.op = o,
                                     !.out = Dispatch(client[1], o,
                                                      PendingAnswer)]]
            /\ client' = <<clientAfter(client[1], o)>>
       ELSE /\ procs' = [procs EXCEPT
                           ![p] = [IdleProc EXCEPT
                                     !.pc = "built", !.op = o,
                                     !.req = Dispatch(client[1], o,
                                                      PendingAnswer).req]]
            /\ client' = client
  /\ UNCHANGED <<phase, opts, cfg0, cfg, err, steps, op, out>>
  /\ UNCHANGED <<raw, hdr, passed, sent, trips>>

\* The SDK client sends the request of p: its HTTP request goes through the
\* DefaultHeaderTransport of the Client.
Send(p) ==
  /\ phase = "constructed"
  /\ procs[p].pc = "built"
  /\ procs' = [procs EXCEPT
                 ![p].pc = "sent",
                 ![p].wire = RoundTrip(headerTransportOf(client[1]),
                                       sdkRequest(client[1]))]
  /\ client' =
       <<[client[1] EXCEPT
            !.client[1].HTTPClient[1].Transport.Header =
               headerAfter(headerTransportOf(client[1]),
                           sdkRequest(client[1]))]>>
  /\ UNCHANGED <<phase, opts, cfg0, cfg, err, steps, op, out>>
  /\ UNCHANGED <<raw, hdr, passed, sent, trips>>

\* The backend answers the request of p, and the dispatcher returns.
Answer(p) ==
  /\ phase = "constructed"
  /\ procs[p].pc = "sent"
  /\ \E b \in BackendAnswers :
       Ends(p, [Dispatch(client[1], procs[p].op, b) EXCEPT
                  !.req = procs[p].req])
  /\ UNCHANGED <<opts, cfg0, cfg, err, steps, op, out>>
  /\ UNCHANGED <<raw, hdr, passed, sent, trips>>

\* The goroutine p, its call over, is ready for its next call.
Again(p) ==
  /\ phase = "constructed"
  /\ procs[p].pc = "done"
  /\ procs' = [procs EXCEPT ![p] = IdleProc]
  /\ UNCHANGED <<phase, opts, cfg0, cfg, client, err, steps, op, out>>
  /\ UNCHANGED <<raw, hdr, passed, sent, trips>>

NextCalls ==
  \E p \in 1..MaxProcs :
     \/ Build(p)
     \/ Send(p)
     \/ Answer(p)
     \/ Again(p)

\* Goroutines call the dispatchers of one Client concurrently.
SpecCalls == InitCalls /\ [][NextCalls]_vars

\* ------------------------------------------------------------------ claims

\* New has returned (and, possibly, dispatcher calls were made since).
AfterNew == phase \in {"constructed", "failed", "panicked"}

\* The last dispatcher call was answered by the backend without an error and
\* with no candidate.
EmptyAnswer == op.b # <<>> /\ op.b[1].err = "" /\ op.b[1].Choices = <<>>

\* C1 (as claimed): when the backend call succeeds with zero candidates,
\* Completion and ImageCompletion return an error and no Response, and do not
\* panic on the first element of the empty candidate list.
C1_EmptyResponseIsAnError ==
  (op.name \in {"Completion", "ImageCompletion"} /\ out.sdkCalls = 1
     /\ EmptyAnswer)
  => (~out.panicked /\ out.err # "" /\ out.resp = <<>>)

\* C2: whenever the options leave the token empty, New returns the
\* missing-token error and no Client, and has done nothing but build and
\* validate the config: no transport, dialer or SDK client was built.
C2_MissingCredential ==
  (AfterNew /\ cfg0.token = "")
  => /\ phase = "failed"
     /\ err = "please set OPENAI_API_KEY environment variable"
     /\ client = <<>>
     /\ steps = <<"newConfig", "valid">>

\* C2's case: New has failed on an empty token although a SOCKS address was
\* set, which New would have dialled through.
C2_Witness ==
  /\ phase = "failed"
  /\ cfg0.token = ""
  /\ cfg0.socksURL # ""
  /\ cfg0.proxyURL = ""

\* C3 (as claimed): every request a dispatcher builds carries the max tokens,
\* temperature, top-p, presence penalty and frequency penalty of the
\* validated config.
C3_RequestCarriesConfig ==
  (phase = "constructed" /\ out.req # <<>>)
  => /\ out.req[1].MaxTokens = cfg.maxTokens
     /\ out.req[1].Temperature = cfg.temperature
     /\ out.req[1].TopP = cfg.topP
     /\ out.req[1].PresencePenalty = cfg.presencePenalty
     /\ out.req[1].FrequencyPenalty = cfg.frequencyPenalty

\* C4 (as claimed): the model of the Client New returns is the model of the
\* validated config; it is the default model when only a token was set, the
\* model the options set when that is not empty, and never empty.
C4_ClientModel ==
  phase = "constructed"
  => /\ client[1].model = cfg.model
     /\ client[1].model # ""
     /\ cfg0.model # "" => client[1].model = cfg0.model
     /\ cfg0 = [newConfig(<<>>) EXCEPT !.token = cfg0.token]
          => client[1].model = "gpt-4o-mini"

\* The indices of the options that no later option overwrites.
LastWriters(options) ==
  {i \in 1..Len(options) :
     \A j \in (i + 1)..Len(options) : options[j].field # options[i].field}

\* The options at the indices in keep, in their order in options.
RECURSIVE Selected(_, _, _)
Selected(options, keep, i) ==
  IF i > Len(options) THEN <<>>
  ELSE (IF i \in keep THEN <<options[i]>> ELSE <<>>)
       \o Selected(options, keep, i + 1)

\* The config of no option at all: the defaults of newConfig.
DefaultsOnly == newConfig(<<>>)

\* once, the config the options yield, is also what they yield when applied
\* two or three times over and what the options at keep yield alone; each
\* field an option at keep writes holds what that option captured, and every
\* other field holds its default.  keep is LastWriters(options).
LastWriteWins(options, keep, once) ==
  /\ once = newConfig(Selected(options, keep, 1))
  /\ once = newConfig(options \o options)
  /\ once = newConfig(options \o options \o options)
  /\ \A i \in keep : once[options[i].field] = options[i].val
  /\ \A f \in ConfigFields \ {options[i].field : i \in keep} :
        once[f] = DefaultsOnly[f]

\* C5: the config the options yield, applied in order once, twice or three
\* times over, is the config that only the last option written to each field
\* yields; each field holds what the last option on it captured, or its
\* default when no option writes it (so a header list replaces the earlier
\* one).
C5_LastWriteWins == LastWriteWins(opts, LastWriters(opts), newConfig(opts))

\* C5's case: three options, two of them on the header list with different
\* lists, and one on another field.
C5_Witness ==
  /\ Len(opts) = 3
  /\ \E i, j, k \in 1..3 :
       /\ i < j
       /\ opts[i].fn = "WithHeaders" /\ opts[j].fn = "WithHeaders"
       /\ opts[i].arg # opts[j].arg
       /\ opts[k].fn # "WithHeaders"
       /\ newConfig(opts).headers = opts[j].arg

\* C6 (as claimed): after any sequence of options the provider of the config
\* is "openai" or "azure".
C6_ProviderIsOpenAIOrAzure ==
  /\ newConfig(opts).provider \in {"openai", "azure"}
  /\ AfterNew => cfg.provider \in {"openai", "azure"}

\* C7: an option WithProvider(v) with v not among the names the switch of
\* WithProvider lets through leaves the provider "openai", whatever the
\* options before it had set.  (Stated of the option added last: every prefix
\* of an option list is an option list the caller has held.)
C7_UnknownProviderIsDefault ==
  \A i \in {Len(opts)} \ {0} :
     (opts[i].fn = "WithProvider" /\ opts[i].arg \notin RecognisedProviders)
     => newConfig(opts).provider = "openai"

\* C7's case: the provider was Azure and WithProvider("ollama") follows.
C7_Witness ==
  \E i \in 2..Len(opts) :
     /\ opts[i].fn = "WithProvider" /\ opts[i].arg = "ollama"
     /\ newConfig(SubSeq(opts, 1, i - 1)).provider = "azure"
     /\ newConfig(SubSeq(opts, 1, i)).provider = "openai"

\* New called proxy.SOCKS5 and got an error.
SocksFailed == steps # <<>> /\ steps[Len(steps)] = "proxy.SOCKS5: error"

\* C8: New returns an error exactly when the token is empty or the
\* construction of the SOCKS5 dialer failed, and returns a Client exactly
\* when it returns no error.
C8_OnlyTwoErrors ==
  /\ phase = "options" => (err = "" /\ client = <<>>)
  /\ AfterNew =>
       /\ err # "" <=> (cfg0.token = "" \/ SocksFailed)
       /\ err = "" <=> client # <<>>
       /\ Len(client) <= 1

\* C8's case: New has returned a Client and no error for a provider other
\* than OpenAI and Azure and a proxy URL that does not parse.
C8_Witness ==
  /\ phase = "constructed"
  /\ err = ""
  /\ client # <<>>
  /\ cfg0.provider \notin {"openai", "azure"}
  /\ cfg0.proxyURL = "%zz"

\* C9: on a config with a token, no model and the provider OpenAI or Azure,
\* valid() succeeds (New goes on past it) and leaves the default model.
C9_DefaultModelFilled ==
  (AfterNew /\ cfg0.token # "" /\ cfg0.model = ""
     /\ cfg0.provider \in {"openai", "azure"})
  => /\ Len(steps) > 2
     /\ err # "please set OPENAI_API_KEY environment variable"
     /\ cfg.model = "gpt-4o-mini"
     /\ cfg = [cfg0 EXCEPT !.model = "gpt-4o-mini"]

\* C9's case: New has validated an Azure config without a model.
C9_Witness ==
  /\ phase = "constructed"
  /\ cfg0.token # ""
  /\ cfg0.model = ""
  /\ cfg0.provider = "azure"
  /\ cfg.model = "gpt-4o-mini"

\* The temperature t of the config after the options is right for the
\* option added last: when that is WithTemperature(v), t is 1.0 for v <= 0
\* and v for v > 0.
TemperatureStored(options, t) ==
  \A i \in {Len(options)} \ {0} :
     options[i].fn = "WithTemperature"
     => /\ FLeqZero(options[i].arg) => t = F(10)
        /\ FGtZero(options[i].arg) => t = options[i].arg

\* No option WithTemperature(NaN) is among the options.
NoNaNTemperature(options) ==
  \A i \in 1..Len(options) :
     options[i].fn = "WithTemperature" => ~options[i].arg.nan

\* C10 as claimed, of the temperature t after the options.
StrictlyPositive(options, t) == TemperatureStored(options, t) /\ FGtZero(t)

\* C10 as amended, of the temperature t after the options.
NeverZeroOrLess(options, t) ==
  /\ TemperatureStored(options, t)
  /\ ~FLeqZero(t)
  /\ NoNaNTemperature(options) => FGtZero(t)

\* C10 (as claimed): WithTemperature stores 1.0 for v <= 0 and v for v > 0,
\* and so the temperature of the config is strictly positive after any
\* sequence of options.
C10_TemperatureStrictlyPositive ==
  StrictlyPositive(opts, newConfig(opts).temperature)

\* C10 (amended): WithTemperature stores 1.0 for v <= 0 and v for v > 0 (stated
\* of the option added last, every prefix of an option list being one the
\* caller has held), and stores a NaN as it is; so the temperature of the config is never zero or
\* negative, and is strictly positive unless an option WithTemperature(NaN)
\* was given.
C10_TemperatureNeverZeroOrLess ==
  NeverZeroOrLess(opts, newConfig(opts).temperature)

\* C10's case: the temperature was 0.7 and WithTemperature(-5) follows, which
\* leaves the default 1.0.
C10_Witness ==
  \E i \in 2..Len(opts) :
     /\ opts[i - 1].fn = "WithTemperature" /\ opts[i - 1].arg = F(7)
     /\ opts[i].fn = "WithTemperature" /\ opts[i].arg = F(-50)
     /\ i = Len(opts)
     /\ newConfig(opts).temperature = F(10)

\* The max tokens n of the config after the options is right for the option
\* added last (every prefix of an option list being one the caller has
\* held): when that is WithMaxTokens(v), n is 2000 for v <= 0 and v for v > 0;
\* and n is strictly positive.
MaxTokensPositive(options, n) ==
  /\ \A i \in {Len(options)} \ {0} :
        options[i].fn = "WithMaxTokens"
        => /\ options[i].arg <= 0 => n = 2000
           /\ options[i].arg > 0 => n = options[i].arg
  /\ n > 0

\* C11: WithMaxTokens stores 2000 for v <= 0 and v for v > 0, and so the max
\* tokens of the config is strictly positive after any sequence of options.
C11_MaxTokensStrictlyPositive ==
  MaxTokensPositive(opts, newConfig(opts).maxTokens)

\* C11's case: the max tokens was 100 and WithMaxTokens(0) follows, which
\* leaves the default 2000.
C11_Witness ==
  \E i \in 2..Len(opts) :
     /\ opts[i - 1].fn = "WithMaxTokens" /\ opts[i - 1].arg = 100
     /\ opts[i].fn = "WithMaxTokens" /\ opts[i].arg = 0
     /\ i = Len(opts)
     /\ newConfig(opts).maxTokens = 2000

\* The header string e holds an "=".
HasEq(e) == \E i \in 1..Len(e) : e[i] = "="

\* The place of the first "=" of e.
FirstEq(e) ==
  CHOOSE i \in 1..Len(e) : e[i] = "=" /\ \A j \in 1..(i - 1) : e[j] # "="

\* The text of e before its first "=", and the text after it.
BeforeEq(e) == SubSeq(e, 1, FirstEq(e) - 1)

AfterEq(e) == SubSeq(e, FirstEq(e) + 1, Len(e))

\* The places in list of the header strings that hold an "=" and a key that
\* is not empty once the white space around it is trimmed.
Kept(list) ==
  {i \in 1..Len(list) : HasEq(list[i]) /\ TrimSpace(BeforeEq(list[i])) # <<>>}

\* The header set holds exactly the kept strings of list: its keys are their
\* keys, and the values of a key are the values of the kept strings with that
\* key, in the order of list.
HeaderSetIs(list, set, Key(_), Value(_)) ==
  /\ DOMAIN set = {Key(list[i]) : i \in Kept(list)}
  /\ \A k \in DOMAIN set :
        LET idx == {i \in Kept(list) : Key(list[i]) = k}
        IN /\ Len(set[k]) = Cardinality(idx)
           /\ \A i \in idx :
                 set[k][Cardinality({j \in idx : j <= i})] = Value(list[i])

\* The key and the value of a header string as claimed: the text before the
\* first "=" without the white space around it, and everything after it.
ClaimedKey(e) == TrimSpace(BeforeEq(e))

ClaimedValue(e) == AfterEq(e)

\* The key and the value as stored: the key also in the canonical form of a
\* MIME header key, the value also without the white space around it.
StoredKey(e) == CanonicalMIMEHeaderKey(TrimSpace(BeforeEq(e)))

StoredValue(e) == TrimSpace(AfterEq(e))

\* C12 (as claimed): the header set NewHeaders returns holds exactly the
\* strings with an "=" and a non-empty key; the key is the text before the
\* first "=", the value everything after it, and the values of a repeated key
\* are in input order.
C12_HeadersAsWritten ==
  hdr # <<>> => HeaderSetIs(raw, hdr[1], ClaimedKey, ClaimedValue)

\* C12 (amended): the same, with the key the trimmed text before the first
\* "=" in canonical MIME form (so that keys differing in case are one key),
\* and the value the trimmed text after the first "=".
C12_HeadersTrimmedCanonical ==
  hdr # <<>> => HeaderSetIs(raw, hdr[1], StoredKey, StoredValue)

\* C12's case: NewHeaders was given "a=1", later " a = 2 ", and a string it
\* drops; the set holds the two values under the one key "A", in that order.
C12_Witness ==
  /\ hdr # <<>>
  /\ \E i, j, k \in 1..Len(raw) :
       /\ i < j
       /\ raw[i] = <<"a", "=", "1">>
       /\ raw[j] = <<" ", "a", " ", "=", " ", "2", " ">>
       /\ k \notin Kept(raw)
  /\ DOMAIN hdr[1] = {<<"A">>}
  /\ hdr[1][<<"A">>] = << <<"1">>, <<"2">> >>

\* The values of key k in the header set h: none when h has no such key.
ValuesAt(h, k) == IF k \in DOMAIN h THEN h[k] ELSE <<>>

\* C13: a request passed to RoundTrip reaches the inner transport exactly
\* once and otherwise unchanged; each of its headers holds the values the
\* request already had, in their order, followed by the configured values of
\* that key, so every configured value is carried and no existing value is
\* lost.
C13_HeadersAddedNotReplaced ==
  passed # <<>>
  => /\ Len(sent) = 1
     /\ sent[1].Method = passed[1].Method
     /\ sent[1].URL = passed[1].URL
     /\ DOMAIN sent[1].Header = DOMAIN passed[1].Header \cup DOMAIN hdr[1]
     /\ \A k \in DOMAIN hdr[1] :
           \A i \in 1..Len(hdr[1][k]) :
              \E j \in 1..Len(sent[1].Header[k]) :
                 sent[1].Header[k][j] = hdr[1][k][i]
     /\ \A k \in DOMAIN passed[1].Header :
           SubSeq(sent[1].Header[k], 1, Len(passed[1].Header[k]))
             = passed[1].Header[k]
     /\ \A k \in DOMAIN sent[1].Header :
           sent[1].Header[k]
             = ValuesAt(passed[1].Header, k) \o ValuesAt(hdr[1], k)

\* C13's case: the request already had a value under "A", and two other
\* values are configured for that key.
C13_Witness ==
  /\ passed # <<>>
  /\ <<"A">> \in DOMAIN passed[1].Header
  /\ passed[1].Header[<<"A">>] = << <<"1">> >>
  /\ <<"A">> \in DOMAIN hdr[1]
  /\ hdr[1][<<"A">>] = << <<"2">>, <<"1">> >>
  /\ sent[1].Header[<<"A">>] = << <<"1">>, <<"2">>, <<"1">> >>

\* New has returned a Client.
HasClient == phase \in {"constructed", "panicked"}

\* C14 (as claimed): whenever New returned a Client for a config with a
\* non-empty proxy URL, the transport of the Client sends every request to
\* that proxy, none directly and none through a SOCKS5 dialer.
C14_ProxyRoutesEveryRequest ==
  (HasClient /\ cfg.proxyURL # "")
  => Route(transportOf(client[1])) = [via |-> "http proxy", addr |-> cfg.proxyURL]

\* The step s is among the construction steps New took.
Took(s) == \E i \in 1..Len(steps) : steps[i] = s

\* C15: the transport of a Client never has both a proxy function and a
\* SOCKS5 dialer.  With a proxy URL set New installs the proxy function and
\* does not call proxy.SOCKS5, whatever the SOCKS address, so New fails only
\* on a missing token; the dialer is installed exactly when the proxy URL is
\* empty and the SOCKS address is not, and New calls proxy.SOCKS5 only then.
C15_ProxyExcludesSocks ==
  /\ HasClient =>
       /\ ~(transportOf(client[1]).Proxy # <<>>
            /\ transportOf(client[1]).DialContext # <<>>)
       /\ cfg.proxyURL # "" =>
            /\ transportOf(client[1]).Proxy # <<>>
            /\ Took("http.ProxyURL")
       /\ transportOf(client[1]).DialContext # <<>>
            <=> (cfg.proxyURL = "" /\ cfg.socksURL # "")
       /\ transportOf(client[1]).DialContext # <<>>
            => transportOf(client[1]).DialContext = <<cfg.socksURL>>
  /\ (AfterNew /\ cfg0.proxyURL # "") =>
       /\ ~Took("proxy.SOCKS5") /\ ~Took("proxy.SOCKS5: error")
       /\ err # "" => cfg0.token = ""
  /\ (Took("proxy.SOCKS5") \/ Took("proxy.SOCKS5: error"))
       => (cfg0.proxyURL = "" /\ cfg0.socksURL # "")

\* C15's case: New has returned a Client for a config with both a proxy URL
\* and a SOCKS address; the proxy function is installed and no dialer.
C15_Witness ==
  /\ phase = "constructed"
  /\ cfg.proxyURL = "http://proxy:8080"
  /\ cfg.socksURL # ""
  /\ transportOf(client[1]).Proxy = <<ProxyURL(<<"http://proxy:8080">>)>>
  /\ transportOf(client[1]).DialContext = <<>>

\* C16: on a config with a token, no proxy URL and a SOCKS address, New
\* returns the proxy error and no Client, and builds no SDK client, for
\* every error proxy.SOCKS5 returns; so a Client that New did return for such
\* a config has the dialer installed, and a failed New left no Client to
\* make a request with.
C16_SocksFailureAtConstruction ==
  (AfterNew /\ cfg0.token # "" /\ cfg0.proxyURL = "" /\ cfg0.socksURL # "")
  => /\ \A e \in SocksErrors \ {""} :
           /\ validate(cfg0, e).err = "can't connect to the proxy: " \o e
           /\ validate(cfg0, e).client = <<>>
           /\ \A i \in 1..Len(validate(cfg0, e).steps) :
                 validate(cfg0, e).steps[i]
                   \notin {"DefaultHeaderTransport", "NewClientWithConfig"}
     /\ phase = "failed" =>
           /\ SocksFailed
           /\ err \in {"can't connect to the proxy: " \o e :
                          e \in SocksErrors \ {""}}
           /\ client = <<>>
           /\ ~Took("NewClientWithConfig")
           /\ out = NoOutcome
     /\ HasClient =>
           /\ ~SocksFailed
           /\ transportOf(client[1]).DialContext = <<cfg0.socksURL>>

\* C16's case: New has failed on the error of proxy.SOCKS5, for the provider
\* Azure.
C16_Witness ==
  /\ phase = "failed"
  /\ cfg0.token # ""
  /\ cfg0.proxyURL = ""
  /\ cfg0.socksURL # ""
  /\ cfg0.provider = "azure"
  /\ err = "can't connect to the proxy: socks: bad address"
  /\ client = <<>>

\* C17: with the provider Azure, the model mapper of the SDK client that New
\* assembled returns the model of the validated config for every model name:
\* the model the options set, or the default model when they set none.
C17_AzureMapperReturnsConfigModel ==
  (HasClient /\ cfg.provider = "azure")
  => /\ client[1].client[1].APIType = "AZURE"
     /\ \A m \in ModelNames : mapModel(client[1].client[1], m) = cfg.model
     /\ cfg.model # ""
     /\ cfg0.model = "" => cfg.model = "gpt-4o-mini"
     /\ cfg0.model # "" => cfg.model = cfg0.model

\* C17's case: an Azure client built without a model; the mapper answers the
\* default model where the mapper of the SDK would answer "gpt-35-turbo".
C17_Witness ==
  /\ phase = "constructed"
  /\ cfg.provider = "azure"
  /\ cfg0.model = ""
  /\ sdkAzureModelMapper("gpt-3.5-turbo") = "gpt-35-turbo"
  /\ mapModel(client[1].client[1], "gpt-3.5-turbo") = "gpt-4o-mini"

\* C18 (as claimed): the base URL of a Client for a provider other than
\* Azure is the base URL of the config when that is not empty, and the
\* endpoint of OpenAI otherwise.
C18_BaseURLConfiguredOrOpenAI ==
  (HasClient /\ cfg.provider # "azure")
  => client[1].client[1].BaseURL
       = IF cfg.baseURL # "" THEN cfg.baseURL ELSE "https://api.openai.com/v1"

\* The argument of the last WithSkipVerify among the options; FALSE when
\* there is none.
LastSkipVerify(options) ==
  \E i \in 1..Len(options) :
     /\ options[i].fn = "WithSkipVerify"
     /\ options[i].arg
     /\ \A j \in (i + 1)..Len(options) : options[j].fn # "WithSkipVerify"

\* r, what New returns for the options, has a Client only with the
\* verification of certificates disabled exactly when the last WithSkipVerify
\* among the options has the argument true.
SkipVerifyFollows(options, r) ==
  r.client # <<>>
  => /\ transportOf(r.client[1]).InsecureSkipVerify <=> LastSkipVerify(options)
     /\ r.cfg.skipVerify <=> LastSkipVerify(options)

\* C19: the transport of the Client New returns has the verification of
\* certificates disabled exactly when the skip-verify flag of the config is
\* true, which is exactly when the last WithSkipVerify among the options has
\* the argument true: not without such an option, and not when the last one
\* has the argument false.
C19_SkipVerifyIffConfigured ==
  /\ phase = "options" => SkipVerifyFollows(opts, New(opts, ""))
  /\ HasClient =>
       /\ transportOf(client[1]).InsecureSkipVerify <=> cfg.skipVerify
       /\ cfg.skipVerify <=> cfg0.skipVerify

\* C19's case: New has returned a Client for a config with the flag set.
C19_Witness ==
  /\ phase = "constructed"
  /\ cfg0.skipVerify
  /\ transportOf(client[1]).InsecureSkipVerify

\* C20: the request of CreateChatCompletion, and so of Completion, has two
\* messages: the system message with the prompt of the caller, or with "You
\* are a helpful assistant." for an empty prompt, then the user message with
\* the content of the caller.
C20_SystemThenUser ==
  op.name \in {"CreateChatCompletion", "Completion"}
  => /\ out.req # <<>>
     /\ out.sdkCalls = 1
     /\ Len(out.req[1].Messages) = 2
     /\ out.req[1].Messages[1].Role = "system"
     /\ out.req[1].Messages[1].Content =
          (IF op.prompt = "" THEN "You are a helpful assistant." ELSE op.prompt)
     /\ out.req[1].Messages[1].MultiContent = <<>>
     /\ out.req[1].Messages[2].Role = "user"
     /\ out.req[1].Messages[2].Content = op.content
     /\ out.req[1].Messages[2].MultiContent = <<>>

\* C20's case: Completion was called with an empty prompt.
C20_Witness ==
  /\ op.name = "Completion"
  /\ op.prompt = ""
  /\ op.content = "hello"
  /\ out.req # <<>>
  /\ out.req[1].Messages[1].Content = "You are a helpful assistant."

\* C22: the request of CreateImageChatCompletion, and so of ImageCompletion
\* when it makes one, starts with a user message of two parts, the text with
\* the content and then the image URL; one system message with the prompt
\* follows when the prompt is not empty, and nothing otherwise.
C22_ImageThenOptionalSystem ==
  (op.name \in {"CreateImageChatCompletion", "ImageCompletion"}
     /\ out.req # <<>>)
  => /\ Len(out.req[1].Messages) = (IF op.prompt # "" THEN 2 ELSE 1)
     /\ out.req[1].Messages[1].Role = "user"
     /\ out.req[1].Messages[1].Content = ""
     /\ Len(out.req[1].Messages[1].MultiContent) = 2
     /\ out.req[1].Messages[1].MultiContent[1] =
          [Type |-> "text", Text |-> op.content, ImageURL |-> <<>>]
     /\ out.req[1].Messages[1].MultiContent[2] =
          [Type |-> "image_url", Text |-> "", ImageURL |-> <<[URL |-> op.image]>>]
     /\ op.prompt # "" =>
          out.req[1].Messages[2] =
            [Role |-> "system", Content |-> op.prompt, MultiContent |-> <<>>]
     /\ op.name = "CreateImageChatCompletion" => out.sdkCalls = 1

\* C22's case: CreateImageChatCompletion was called with a prompt.
C22_Witness ==
  /\ op.name = "CreateImageChatCompletion"
  /\ op.prompt = "You are a poet."
  /\ out.req # <<>>
  /\ Len(out.req[1].Messages) = 2
  /\ out.req[1].Messages[2].Role = "system"

BackendFailed == out.sdkCalls > 0 /\ op.b # <<>> /\ op.b[1].err # ""

\* C24: a dispatcher call makes at most one call to the SDK client, also
\* when that call fails; on a failure every dispatcher returns the error, and
\* Completion and ImageCompletion return no Response with it.
C24_AtMostOneCallNoRetry ==
  op.name # ""
  => /\ out.sdkCalls \in {0, 1}
     /\ out.sdkCalls = Len(out.req)
     /\ BackendFailed =>
          /\ out.sdkCalls = 1
          /\ out.err # ""
          /\ ~out.panicked
          /\ op.name \in {"Completion", "ImageCompletion"} => out.resp = <<>>

\* C24's case: the one call that ImageCompletion made has failed.
C24_Witness ==
  /\ op.name = "ImageCompletion"
  /\ BackendFailed
  /\ out.sdkCalls = 1
  /\ out.resp = <<>>
  /\ out.err # ""

\* C25 (as claimed): when the call to the SDK fails, the error of Completion
\* and of ImageCompletion is more than the error of the SDK: context that
\* names the failed operation is added to it.
C25_ErrorCarriesContext ==
  (op.name \in {"Completion", "ImageCompletion"} /\ BackendFailed)
  => /\ out.err # ""
     /\ out.err # op.b[1].err

\* C27 (as claimed): on a config with a token and a model, whatever its
\* provider, valid() succeeds and leaves every field as it was.
C27_ValidKeepsSetModel ==
  (AfterNew /\ cfg0.token # "" /\ cfg0.model # "")
  => /\ err # "please set OPENAI_API_KEY environment variable"
     /\ Len(steps) > 2
     /\ cfg.model = cfg0.model
     /\ cfg = cfg0

\* The sequence s, k times over.
RECURSIVE Repeat(_, _)
Repeat(s, k) == IF k = 0 THEN <<>> ELSE s \o Repeat(s, k - 1)

\* C28: round trips leave the header set of the transport as NewHeaders
\* built it, and a request object that was passed to RoundTrip k times holds,
\* under each key, the values it had at first followed by k copies of the
\* configured values of that key: one copy for each call, and one copy for a
\* new request after any number of earlier round trips.
C28_OneCopyPerRoundTrip ==
  /\ hdr # <<>> => hdr[1] = NewHeaders(raw)
  /\ passed # <<>> =>
       /\ trips >= 1
       /\ Len(sent) = 1
       /\ DOMAIN sent[1].Header = DOMAIN passed[1].Header \cup DOMAIN hdr[1]
       /\ \A k \in DOMAIN sent[1].Header :
             sent[1].Header[k]
               = ValuesAt(passed[1].Header, k)
                   \o Repeat(ValuesAt(hdr[1], k), trips)

\* C28's case: a request that had one value under "A" was passed twice
\* through a transport with two values configured for "A".
C28_Witness ==
  /\ passed # <<>>
  /\ trips = 2
  /\ <<"A">> \in DOMAIN passed[1].Header
  /\ <<"A">> \in DOMAIN hdr[1]
  /\ hdr[1][<<"A">>] = << <<"1">>, <<"2">> >>
  /\ sent[1].Header[<<"A">>]
       = << <<"1">>, <<"1">>, <<"2">>, <<"1">>, <<"2">> >>

\* A goroutine whose call is CreateChatCompletionWithMessage.
WithMessage(q) == q.op.name = "CreateChatCompletionWithMessage"

\* C21: the request built by CreateChatCompletionWithMessage holds exactly
\* the messages of the caller, in their order, nothing added or removed,
\* whatever calls came before on the same Client and whatever calls run
\* beside it.
C21_MessagesExactlyAsGiven ==
  \A p \in 1..MaxProcs :
     (procs[p].pc # "idle" /\ WithMessage(procs[p]))
       => /\ Len(procs[p].req) = 1
          /\ procs[p].req[1].Messages = procs[p].op.messages

\* One goroutine has finished a call with a history of three messages and
\* another has built a request from a single message on the same Client.
C21_Witness ==
  \E p, q \in 1..MaxProcs :
     /\ procs[p].pc = "done" /\ WithMessage(procs[p])
     /\ Len(procs[p].op.messages) = 3
     /\ procs[q].pc = "built" /\ WithMessage(procs[q])
     /\ Len(procs[q].op.messages) = 1
     /\ Len(procs[q].req[1].Messages) = 1

\* The calls in flight on the Client c0, as New returned it, left c0 as it
\* was and built and sent what each builds and sends alone on c0.
CallsShareNothing(c0) ==
  /\ client = <<c0>>
  /\ \A p \in 1..MaxProcs :
        /\ procs[p].pc # "idle"
             => procs[p].req = Dispatch(c0, procs[p].op, PendingAnswer).req
        /\ procs[p].pc = "sent"
             => procs[p].wire = RoundTrip(headerTransportOf(c0), sdkRequest(c0))

\* C26: under any interleaving of concurrent dispatcher calls on one Client,
\* no call writes a field of the Client or the configured header set of the
\* transport, and each call builds the request it builds when run alone.
C26_ConcurrentCallsShareNothing ==
  (Len(client) = 1 /\ Len(opts) = 0)
    => CallsShareNothing(validate(cfg0, "").client[1])

\* Two different calls are in flight at once on a Client with configured
\* headers: one has been sent, the other has built its request.
C26_Witness ==
  \E p, q \in 1..MaxProcs :
     /\ procs[p].pc = "sent" /\ procs[q].pc = "built"
     /\ procs[p].op # procs[q].op
     /\ procs[q].op.name = "CreateImageChatCompletion"
     /\ DOMAIN headerTransportOf(client[1]).Header # {}
     /\ Len(procs[p].wire) = 1

====
